---- MODULE Spec2Model ----
(***************************************************************************)
(* State machine of the PicEditor gallery: the App component (image        *)
(* collection, selection workflow), the single-image Editor and the        *)
(* MultiImageEditor, with the asynchronous file reads and collaborator     *)
(* calls they leave in flight; and, as a component of its own, the         *)
(* ImageComparison slider.                                                 *)
(*                                                                         *)
(* Conventions.  A React state setter applies at the end of the handler    *)
(* that calls it, so one handler is one action.  Handlers are enabled only *)
(* where the render logic shows the element that triggers them.  Component *)
(* state of an unmounted Editor / MultiImageEditor is held at its useState *)
(* initial value, which is what a later mount starts from.  Ids produced   *)
(* by Math.random() for images are modelled as fresh values of a counter.  *)
(* Data that is only rendered or only handed to a collaborator is left     *)
(* out: ImageItem.name, EditedVersion.id (a React key) and .timestamp,     *)
(* Editor.preserveFaces and Editor.showOriginal, ImageComparison.width.    *)
(***************************************************************************)
EXTENDS Integers, Sequences, FiniteSets, TLC

\* ------------------------------------------------------------------ bounds
\* Creation events in one run: images created (file reads and blend results,
\* counted from the moment they are requested) plus edit requests dispatched.
MaxCreated == 5
\* The same events in the runs that tell the results of two edits apart.
MaxEdits == 4
\* Pointer x coordinates (clientX) run over 0..MaxX.
MaxX == 7

\* --------------------------------------------------------------- constants
\* toggleSelection: "if (newSet.size >= 4)".
MaxSelected == 4
\* Blend button: "selectedIds.size >= 2".
MinBlend == 2
\* Selection-mode button: "images.length > 1".
MinForSelectionMode == 1

\* Content references (data URLs): of the files uploaded, and of the results the
\* collaborators return.
Files == {"a"}
Results == {"b"}
\* Results of editImageWithGemini in the runs that tell two edits apart.
EditResults == {"b", "c"}
\* Texts typed into the Editor prompt box: empty, blank, and a real prompt.
Prompts == {"", " ", "sketch"}
\* Texts typed into the MultiImageEditor prompt box.
BlendPrompts == {"", "mix"}
RevertLabel == "Revert to Original"
DefaultBlendPrompt == "Apply the style of the first image to the second image."
GenerateError == "Failed to generate image. Please try again."
NoError == "null"
NoUrl == "null"
\* editingId === null
NoId == 0
\* viewingVersionIndex === null (indices are 0-based as in the code)
NoIndex == -1
\* ImageComparison: useState(50).
InitialSliderPos == 50
\* getBoundingClientRect() of the slider container: rect.left and rect.width.
\* Coordinates and sizes are whole numbers of one fixed sub-pixel unit, which
\* handleDrag divides out.  Width 0 is the rect of a container that has no
\* layout box (an ancestor is hidden); 3 gives a percentage that is no integer.
Lefts == {1, 2}
Widths == {0, 3, 4}

VARIABLES
  images,          \* App: ImageItem[]  (gallery display order)
  editingId,       \* App: string | null
  isSelectionMode, \* App
  selectedIds,     \* App: Set<string>, kept in insertion order as a JS Set is
  showMultiEditor, \* App
  nextId,          \* ids handed out so far to images (Math.random freshness)
  dispatched,      \* edit requests dispatched so far
  pendingReads,    \* FileReader reads in flight: their contents, in request order
  edPrompt,        \* Editor: prompt
  edProcessing,    \* Editor: isProcessing
  edError,         \* Editor: error
  edViewing,       \* Editor: viewingVersionIndex
  pendingEdits,    \* editImageWithGemini calls in flight, in dispatch order
  mPrompt,         \* MultiImageEditor: prompt
  mProcessing,     \* MultiImageEditor: isProcessing
  mError,          \* MultiImageEditor: error
  generatedImage,  \* MultiImageEditor: generatedImage
  pendingBlend,    \* generateMultiImageTransform call of the mounted editor
  sliderPos,       \* ImageComparison: sliderPos (percent), a fraction in lowest terms
  isDragging,      \* ImageComparison: isDragging
  rectLeft,        \* ImageComparison container: getBoundingClientRect().left
  rectWidth,       \* ImageComparison container: getBoundingClientRect().width
  limits,          \* bounds of the run: creation events allowed, and the contents
                   \* editImageWithGemini may resolve to
  lastOp           \* the handler that ran last, the image id (or clientX) it was given,
                   \* whether it alerted, the dispatch number of the request it completes

vars == << images, editingId, isSelectionMode, selectedIds, showMultiEditor,
           nextId, dispatched, pendingReads, edPrompt, edProcessing, edError,
           edViewing, pendingEdits, mPrompt, mProcessing, mError,
           generatedImage, pendingBlend, sliderPos, isDragging,
           rectLeft, rectWidth, limits, lastOp >>

appVars == << images, editingId, isSelectionMode, selectedIds, showMultiEditor,
              nextId, dispatched >>
editorVars == << edPrompt, edProcessing, edError, edViewing >>
multiVars == << mPrompt, mProcessing, mError, generatedImage, pendingBlend >>
sliderVars == << sliderPos, isDragging, rectLeft, rectWidth >>
galleryVars == << appVars, pendingReads, editorVars, pendingEdits, multiVars, limits >>

\* ----------------------------------------------------------------- helpers
Op(name, id, alerted) == [op |-> name, id |-> id, alert |-> alerted, seq |-> 0]
\* The same for the continuation of an edit request: the image it was sent for
\* and its place in the order of dispatch.
OpOn(name, req) == [op |-> name, id |-> req.imageId, alert |-> FALSE, seq |-> req.seq]

Ids(imgs) == { imgs[i].id : i \in 1..Len(imgs) }

\* images.find(img => img.id === id); callers check Has first.
Has(imgs, id) == \E i \in 1..Len(imgs) : imgs[i].id = id
Find(imgs, id) == imgs[CHOOSE i \in 1..Len(imgs) : imgs[i].id = id]

\* images.findIndex(...): position in the gallery (1-based here).
IndexOf(imgs, id) == CHOOSE i \in 1..Len(imgs) : imgs[i].id = id

\* String.prototype.trim on the prompt texts of the model.
Trim(p) == IF p = " " THEN "" ELSE p

\* JS Set operations on the insertion-ordered selection.
SetHas(s, id) == \E i \in 1..Len(s) : s[i] = id
SetDelete(s, id) == SelectSeq(s, LAMBDA x : x # id)
SetAdd(s, id) == IF SetHas(s, id) THEN s ELSE Append(s, id)
SetSize(s) == Len(s)
SetElems(s) == { s[i] : i \in 1..Len(s) }


\* ---------------------------------------------------------------- numbers
\* sliderPos is a JavaScript number.  The model holds the real number it stands
\* for as a fraction num/den in lowest terms (den > 0), and NaN, the value of
\* 0 / 0, as 0/0; the rounding of the quotient to a double is left out.
Min(a, b) == IF a < b THEN a ELSE b
Max(a, b) == IF a > b THEN a ELSE b
RECURSIVE GCD(_, _)
GCD(a, b) == IF b = 0 THEN a ELSE GCD(b, a % b)
NaN == [num |-> 0, den |-> 0]
\* n / d for n >= 0, d >= 0 (and n = 0 when d = 0, as in handleDrag).
Ratio(n, d) ==
  IF d = 0 THEN NaN
  ELSE [num |-> n \div GCD(n, d), den |-> d \div GCD(n, d)]
\* lo <= p <= hi for integers lo, hi; false of NaN, as every comparison is.
Within(p, lo, hi) == p.den > 0 /\ lo * p.den <= p.num /\ p.num <= hi * p.den

\* ------------------------------------------------------- App: pure parts
\* The ImageItem literal of handleFileUpload / handleAddGeneratedImage.
NewImage(id, url) ==
  [ id |-> id, originalUrl |-> url, currentUrl |-> url,
    versions |-> << >>, isProcessing |-> FALSE ]

\* The EditedVersion literal of handleUpdateImage.
NewVersion(newUrl, prompt) == [ url |-> newUrl, prompt |-> prompt ]

\* Variants of handleUpdateImage with one line wrong: the version is appended but
\* currentUrl is not set; currentUrl is overwritten and nothing is appended; the
\* new version replaces the history instead of extending it.
HandleUpdateImageKeepsCurrent(imgs, id, newUrl, prompt) ==
  [ i \in 1..Len(imgs) |->
      IF imgs[i].id = id
        THEN [ imgs[i] EXCEPT !.versions = Append(@, NewVersion(newUrl, prompt)) ]
        ELSE imgs[i] ]
HandleUpdateImageOverwrites(imgs, id, newUrl, prompt) ==
  [ i \in 1..Len(imgs) |->
      IF imgs[i].id = id THEN [ imgs[i] EXCEPT !.currentUrl = newUrl ] ELSE imgs[i] ]
HandleUpdateImageTruncates(imgs, id, newUrl, prompt) ==
  [ i \in 1..Len(imgs) |->
      IF imgs[i].id = id
        THEN [ imgs[i] EXCEPT !.currentUrl = newUrl,
                              !.versions = << NewVersion(newUrl, prompt) >> ]
        ELSE imgs[i] ]

\* Variant of handleUpdateImage that adds an image when the id is not found.
HandleUpdateImageUpserts(imgs, id, newUrl, prompt) ==
  IF Has(imgs, id)
    THEN [ i \in 1..Len(imgs) |->
             IF imgs[i].id = id
               THEN [ imgs[i] EXCEPT !.currentUrl = newUrl,
                                     !.versions = Append(@, NewVersion(newUrl, prompt)) ]
               ELSE imgs[i] ]
    ELSE Append(imgs, NewImage(id, newUrl))

\* handleUpdateImage: prev.map(img => img.id === id ? {...} : img).
HandleUpdateImage(imgs, id, newUrl, prompt) ==
  [ i \in 1..Len(imgs) |->
      IF imgs[i].id = id
        THEN [ imgs[i] EXCEPT !.currentUrl = newUrl,
                              !.versions = Append(@, NewVersion(newUrl, prompt)) ]
        ELSE imgs[i] ]

\* removeImage: prev.filter(img => img.id !== id).
FilterOut(imgs, id) == SelectSeq(imgs, LAMBDA img : img.id # id)

\* removeImage: the selectedIds part.
RemoveFromSelection(sel, id) == IF SetHas(sel, id) THEN SetDelete(sel, id) ELSE sel

\* Variant of toggleSelectionMode that forgets setSelectedIds(new Set()) on exit.
SelectionKeptOnExit(mode, sel) == sel

\* toggleSelectionMode: the selection it leaves (cleared on exit, kept on entry).
SelectionAfterModeToggle(mode, sel) == IF mode THEN << >> ELSE sel

\* toggleSelection: whether the click is rejected with the alert.
ToggleRejected(sel, id) == ~SetHas(sel, id) /\ SetSize(sel) >= MaxSelected

\* Variant of toggleSelection with the limit test off by one (size > 4).
ToggleResultOffByOne(sel, id) ==
  IF SetHas(sel, id) THEN SetDelete(sel, id)
  ELSE IF SetSize(sel) > MaxSelected THEN sel
  ELSE SetAdd(sel, id)

\* toggleSelection: the set passed to setSelectedIds (unchanged when rejected).
ToggleResult(sel, id) ==
  IF SetHas(sel, id) THEN SetDelete(sel, id)
  ELSE IF SetSize(sel) >= MaxSelected THEN sel
  ELSE SetAdd(sel, id)

\* Variant of selectedImagesList that follows the order of the clicks
\* (Array.from(selectedIds).map(id => images.find(...))).
SelectedInClickOrder(imgs, sel) ==
  [ k \in 1..Len(sel) |-> imgs[CHOOSE i \in 1..Len(imgs) : imgs[i].id = sel[k]] ]

\* App render: images.filter(img => selectedIds.has(img.id)).
SelectedImagesList(imgs, sel) == SelectSeq(imgs, LAMBDA img : SetHas(sel, img.id))

\* MultiImageEditor: selectedImages[0] and selectedImages.slice(1).
ReferenceImage(list) == list[1]
TargetImages(list) == SubSeq(list, 2, Len(list))

\* MultiImageEditor.handleGenerate: selectedImages.map(img => img.currentUrl).
ImagesPayload(list) == [ i \in 1..Len(list) |-> list[i].currentUrl ]

\* MultiImageEditor.handleGenerate: prompt || default.
EffectivePrompt(p) == IF p = "" THEN DefaultBlendPrompt ELSE p

\* Variant of the Blend button guard that does not look at the selection.
BlendEnabledAlways(mode, sel) == mode

\* Variant of the Blend button guard that accepts a single selected image.
BlendEnabledWithOne(mode, sel) == mode /\ SetSize(sel) >= MinBlend - 1

\* Blend button: isSelectionMode && selectedIds.size >= 2.
BlendEnabled(mode, sel) == mode /\ SetSize(sel) >= MinBlend

\* App render branches.
View ==
  IF showMultiEditor THEN "multi"
  ELSE IF editingId # NoId /\ Has(images, editingId) THEN "editor"
  ELSE "gallery"

\* Variant of activeUrl that ignores the version being viewed.
ActiveUrlAlwaysCurrent(img, viewing) == img.currentUrl

\* Editor: activeUrl.
ActiveUrl(img, viewing) ==
  IF viewing # NoIndex THEN img.versions[viewing + 1].url ELSE img.currentUrl

\* Editor: Generate button "disabled={isProcessing || !prompt.trim()}".
GenerateDisabled(processing, p) == processing \/ Trim(p) = ""

\* Creation events so far: images created, file reads in flight, the blend
\* result a mounted MultiImageEditor may still save, edit requests dispatched.
Created ==
  nextId + Len(pendingReads)
  + (IF pendingBlend # << >> \/ generatedImage # NoUrl THEN 1 ELSE 0)
  + dispatched

EditorInit ==
  /\ edPrompt = "" /\ edProcessing = FALSE /\ edError = NoError /\ edViewing = NoIndex
EditorReset ==
  /\ edPrompt' = "" /\ edProcessing' = FALSE /\ edError' = NoError /\ edViewing' = NoIndex
MultiInit ==
  /\ mPrompt = "" /\ mProcessing = FALSE /\ mError = NoError
  /\ generatedImage = NoUrl /\ pendingBlend = << >>
MultiReset ==
  /\ mPrompt' = "" /\ mProcessing' = FALSE /\ mError' = NoError
  /\ generatedImage' = NoUrl /\ pendingBlend' = << >>

SliderInit ==
  /\ sliderPos = Ratio(InitialSliderPos, 1) /\ isDragging = FALSE
  /\ rectLeft = 1 /\ rectWidth = 4

Start ==
  /\ images = << >>
  /\ editingId = NoId
  /\ isSelectionMode = FALSE
  /\ selectedIds = << >>
  /\ showMultiEditor = FALSE
  /\ nextId = 0
  /\ dispatched = 0
  /\ pendingReads = << >>
  /\ EditorInit
  /\ pendingEdits = << >>
  /\ MultiInit
  /\ SliderInit
  /\ lastOp = Op("init", NoId, FALSE)

Init == Start /\ limits = [ created |-> MaxCreated, results |-> Results ]

\* The same program with fewer creation events and two possible edit results.
InitEdits == Start /\ limits = [ created |-> MaxEdits, results |-> EditResults ]

\* ------------------------------------------------------------ App actions
\* handleFileUpload: one FileReader per chosen file.
HandleFileUpload(files) ==
  /\ View = "gallery"
  /\ files # << >>
  /\ Created + Len(files) <= limits.created
  /\ pendingReads' = pendingReads \o files
  /\ UNCHANGED << sliderVars, limits >>
  /\ lastOp' = Op("handleFileUpload", NoId, FALSE)
  /\ UNCHANGED << appVars, editorVars, pendingEdits, multiVars >>

\* reader.onload of the k-th read in flight: setImages(prev => [...prev, {...}]).
ReaderOnload(k) ==
  /\ k \in 1..Len(pendingReads)
  /\ pendingReads' = [ j \in 1..(Len(pendingReads) - 1) |->
                         IF j < k THEN pendingReads[j] ELSE pendingReads[j + 1] ]
  /\ images' = Append(images, NewImage(nextId + 1, pendingReads[k]))
  /\ nextId' = nextId + 1
  /\ UNCHANGED << sliderVars, limits >>
  /\ lastOp' = Op("readerOnload", nextId + 1, FALSE)
  /\ UNCHANGED << editingId, isSelectionMode, selectedIds, showMultiEditor, dispatched,
                  editorVars, pendingEdits, multiVars >>

\* Variant of removeImage whose Delete button is rendered in selection mode too
\* and whose handler only filters the collection.
RemoveImageLeavesSelection(id) ==
  /\ View = "gallery"
  /\ Has(images, id)
  /\ images' = FilterOut(images, id)
  /\ UNCHANGED << sliderVars, limits >>
  /\ lastOp' = Op("removeImage", id, FALSE)
  /\ UNCHANGED << editingId, isSelectionMode, selectedIds, showMultiEditor, nextId,
                  dispatched, pendingReads, editorVars, pendingEdits, multiVars >>

\* removeImage, from the Delete button of a card (rendered when !isSelectionMode).
RemoveImage(id) ==
  /\ View = "gallery"
  /\ ~isSelectionMode
  /\ Has(images, id)
  /\ images' = FilterOut(images, id)
  /\ selectedIds' = RemoveFromSelection(selectedIds, id)
  /\ UNCHANGED << sliderVars, limits >>
  /\ lastOp' = Op("removeImage", id, FALSE)
  /\ UNCHANGED << editingId, isSelectionMode, showMultiEditor, nextId, dispatched,
                  pendingReads, editorVars, pendingEdits, multiVars >>

\* toggleSelectionMode, from the header button (rendered when images.length > 1).
ToggleSelectionMode ==
  /\ View = "gallery"
  /\ Len(images) > MinForSelectionMode
  /\ isSelectionMode' = ~isSelectionMode
  /\ selectedIds' = SelectionAfterModeToggle(isSelectionMode, selectedIds)
  /\ UNCHANGED << sliderVars, limits >>
  /\ lastOp' = Op("toggleSelectionMode", NoId, FALSE)
  /\ UNCHANGED << images, editingId, showMultiEditor, nextId, dispatched,
                  pendingReads, editorVars, pendingEdits, multiVars >>

\* Card handleClick in selection mode: toggleSelection(img.id, e).
ToggleSelection(id) ==
  /\ View = "gallery"
  /\ isSelectionMode
  /\ Has(images, id)
  /\ selectedIds' = ToggleResult(selectedIds, id)
  /\ UNCHANGED << sliderVars, limits >>
  /\ lastOp' = Op("toggleSelection", id, ToggleRejected(selectedIds, id))
  /\ UNCHANGED << images, editingId, isSelectionMode, showMultiEditor, nextId, dispatched,
                  pendingReads, editorVars, pendingEdits, multiVars >>

\* Variant of the card handleClick that opens the Editor in selection mode too.
OpenEditorInAnyMode(id) ==
  /\ View = "gallery"
  /\ Has(images, id)
  /\ editingId' = id
  /\ UNCHANGED << sliderVars, limits >>
  /\ lastOp' = Op("setEditingId", id, FALSE)
  /\ UNCHANGED << images, isSelectionMode, selectedIds, showMultiEditor, nextId, dispatched,
                  pendingReads, editorVars, pendingEdits, multiVars >>

\* Card handleClick outside selection mode: setEditingId(img.id); the Editor mounts.
OpenEditor(id) ==
  /\ View = "gallery"
  /\ ~isSelectionMode
  /\ Has(images, id)
  /\ editingId' = id
  /\ UNCHANGED << sliderVars, limits >>
  /\ lastOp' = Op("setEditingId", id, FALSE)
  /\ UNCHANGED << images, isSelectionMode, selectedIds, showMultiEditor, nextId, dispatched,
                  pendingReads, editorVars, pendingEdits, multiVars >>

\* handleStartMultiEdit, from the Blend button; the MultiImageEditor mounts.
HandleStartMultiEdit ==
  /\ View = "gallery"
  /\ Len(images) # 0
  /\ BlendEnabled(isSelectionMode, selectedIds)
  /\ showMultiEditor' = TRUE
  /\ UNCHANGED << sliderVars, limits >>
  /\ lastOp' = Op("handleStartMultiEdit", NoId, FALSE)
  /\ UNCHANGED << images, editingId, isSelectionMode, selectedIds, nextId, dispatched,
                  pendingReads, editorVars, pendingEdits, multiVars >>


\* --------------------------------------------------------- Editor actions
\* The image the mounted Editor was given (activeImage).
EditedImage == Find(images, editingId)

\* textarea onChange: setPrompt(e.target.value).
EditorSetPrompt(p) ==
  /\ View = "editor"
  /\ p # edPrompt
  /\ edPrompt' = p
  /\ UNCHANGED << sliderVars, limits >>
  /\ lastOp' = Op("editorSetPrompt", NoId, FALSE)
  /\ UNCHANGED << appVars, pendingReads, edProcessing, edError, edViewing,
                  pendingEdits, multiVars >>

\* History rows: setViewingVersionIndex(null) / setViewingVersionIndex(originalIndex).
SelectViewingVersion(idx) ==
  /\ View = "editor"
  /\ idx = NoIndex \/ idx \in 0..(Len(EditedImage.versions) - 1)
  /\ idx # edViewing
  /\ edViewing' = idx
  /\ UNCHANGED << sliderVars, limits >>
  /\ lastOp' = Op("setViewingVersionIndex", NoId, FALSE)
  /\ UNCHANGED << appVars, pendingReads, edPrompt, edProcessing, edError,
                  pendingEdits, multiVars >>

\* Editor.handleGenerate up to the await: the request leaves with the closure's
\* image.id, prompt and activeUrl.
EditorGenerate ==
  /\ View = "editor"
  /\ ~GenerateDisabled(edProcessing, edPrompt)
  /\ Created + 1 <= limits.created
  /\ dispatched' = dispatched + 1
  /\ edProcessing' = TRUE
  /\ edError' = NoError
  /\ pendingEdits' = Append(pendingEdits,
        [ imageId |-> editingId, prompt |-> edPrompt,
          source |-> ActiveUrl(EditedImage, edViewing), live |-> TRUE,
          seq |-> dispatched + 1 ])
  /\ UNCHANGED << sliderVars, limits >>
  /\ lastOp' = Op("editorGenerate", NoId, FALSE)
  /\ UNCHANGED << images, editingId, isSelectionMode, selectedIds, showMultiEditor,
                  nextId, pendingReads, edPrompt, edViewing, multiVars >>

\* Variant of the success path that drops a result when a request dispatched
\* later for the same image is still in flight.
EditResolveLatestWins(i, newUrl) ==
  /\ i \in 1..Len(pendingEdits)
  /\ LET req == pendingEdits[i] IN
       /\ images' = IF \E j \in (i + 1)..Len(pendingEdits) :
                           pendingEdits[j].imageId = req.imageId
                      THEN images
                      ELSE HandleUpdateImage(images, req.imageId, newUrl, req.prompt)
       /\ IF req.live
            THEN /\ edViewing' = NoIndex
                 /\ edPrompt' = ""
                 /\ edProcessing' = FALSE
                 /\ edError' = edError
            ELSE UNCHANGED editorVars
       /\ UNCHANGED << sliderVars, limits >>
       /\ lastOp' = OpOn("editResolve", req)
  /\ pendingEdits' = [ j \in 1..(Len(pendingEdits) - 1) |->
                         IF j < i THEN pendingEdits[j] ELSE pendingEdits[j + 1] ]
  /\ UNCHANGED << editingId, isSelectionMode, selectedIds, showMultiEditor, nextId,
                  dispatched, pendingReads, multiVars >>

\* Editor.handleGenerate after the await, success path: onUpdateImage, then the
\* setters of the dispatching Editor (no effect once it is unmounted).
EditResolve(i, newUrl) ==
  /\ i \in 1..Len(pendingEdits)
  /\ LET req == pendingEdits[i] IN
       /\ images' = HandleUpdateImage(images, req.imageId, newUrl, req.prompt)
       /\ IF req.live
            THEN /\ edViewing' = NoIndex
                 /\ edPrompt' = ""
                 /\ edProcessing' = FALSE
                 /\ edError' = edError
            ELSE UNCHANGED editorVars
       /\ UNCHANGED << sliderVars, limits >>
       /\ lastOp' = OpOn("editResolve", req)
  /\ pendingEdits' = [ j \in 1..(Len(pendingEdits) - 1) |->
                         IF j < i THEN pendingEdits[j] ELSE pendingEdits[j + 1] ]
  /\ UNCHANGED << editingId, isSelectionMode, selectedIds, showMultiEditor, nextId,
                  dispatched, pendingReads, multiVars >>

\* Variant of the catch path without the finally block.
EditRejectKeepsFlag(i) ==
  /\ i \in 1..Len(pendingEdits)
  /\ LET req == pendingEdits[i] IN
       /\ IF req.live
            THEN /\ edError' = GenerateError
                 /\ UNCHANGED << edPrompt, edProcessing, edViewing >>
            ELSE UNCHANGED editorVars
       /\ UNCHANGED << sliderVars, limits >>
       /\ lastOp' = OpOn("editReject", req)
  /\ pendingEdits' = [ j \in 1..(Len(pendingEdits) - 1) |->
                         IF j < i THEN pendingEdits[j] ELSE pendingEdits[j + 1] ]
  /\ UNCHANGED << appVars, pendingReads, multiVars >>

\* Editor.handleGenerate after the await, catch path.
EditReject(i) ==
  /\ i \in 1..Len(pendingEdits)
  /\ LET req == pendingEdits[i] IN
       /\ IF req.live
            THEN /\ edError' = GenerateError
                 /\ edProcessing' = FALSE
                 /\ UNCHANGED << edPrompt, edViewing >>
            ELSE UNCHANGED editorVars
       /\ UNCHANGED << sliderVars, limits >>
       /\ lastOp' = OpOn("editReject", req)
  /\ pendingEdits' = [ j \in 1..(Len(pendingEdits) - 1) |->
                         IF j < i THEN pendingEdits[j] ELSE pendingEdits[j + 1] ]
  /\ UNCHANGED << appVars, pendingReads, multiVars >>

\* Editor.handleRevertToOriginal, from the Reset link
\* (rendered when image.currentUrl !== image.originalUrl).
HandleRevertToOriginal ==
  /\ View = "editor"
  /\ EditedImage.currentUrl # EditedImage.originalUrl
  /\ images' = HandleUpdateImage(images, editingId, EditedImage.originalUrl, RevertLabel)
  /\ UNCHANGED << sliderVars, limits >>
  /\ lastOp' = Op("handleRevertToOriginal", NoId, FALSE)
  /\ UNCHANGED << editingId, isSelectionMode, selectedIds, showMultiEditor, nextId,
                  dispatched, pendingReads, editorVars, pendingEdits, multiVars >>

\* Variant of onBack that aborts the requests of the Editor it unmounts.
EditorBackAborts ==
  /\ View = "editor"
  /\ editingId' = NoId
  /\ EditorReset
  /\ pendingEdits' = SelectSeq(pendingEdits, LAMBDA r : ~r.live)
  /\ UNCHANGED << sliderVars, limits >>
  /\ lastOp' = Op("editorBack", NoId, FALSE)
  /\ UNCHANGED << images, isSelectionMode, selectedIds, showMultiEditor, nextId, dispatched,
                  pendingReads, multiVars >>

\* Editor onBack: setEditingId(null); the Editor unmounts, its requests stay in flight.
EditorBack ==
  /\ View = "editor"
  /\ editingId' = NoId
  /\ EditorReset
  /\ pendingEdits' = [ j \in 1..Len(pendingEdits) |->
                         [ pendingEdits[j] EXCEPT !.live = FALSE ] ]
  /\ UNCHANGED << sliderVars, limits >>
  /\ lastOp' = Op("editorBack", NoId, FALSE)
  /\ UNCHANGED << images, isSelectionMode, selectedIds, showMultiEditor, nextId, dispatched,
                  pendingReads, multiVars >>

\* ----------------------------------------------- MultiImageEditor actions
\* textarea onChange: setPrompt(e.target.value).
MultiSetPrompt(p) ==
  /\ View = "multi"
  /\ p # mPrompt
  /\ mPrompt' = p
  /\ UNCHANGED << sliderVars, limits >>
  /\ lastOp' = Op("multiSetPrompt", NoId, FALSE)
  /\ UNCHANGED << appVars, pendingReads, editorVars, pendingEdits,
                  mProcessing, mError, generatedImage, pendingBlend >>

\* MultiImageEditor.handleGenerate up to the await; confirmed is the answer to
\* window.confirm, asked only when the prompt is blank.
MultiGenerate(confirmed) ==
  /\ View = "multi"
  /\ ~mProcessing
  /\ generatedImage # NoUrl \/ Created + 1 <= limits.created
  /\ IF Trim(mPrompt) = "" /\ ~confirmed
       THEN UNCHANGED multiVars
       ELSE /\ mProcessing' = TRUE
            /\ mError' = NoError
            /\ generatedImage' = NoUrl
            /\ pendingBlend' =
                 << [ payload |-> ImagesPayload(SelectedImagesList(images, selectedIds)),
                      prompt |-> EffectivePrompt(mPrompt) ] >>
            /\ mPrompt' = mPrompt
  /\ UNCHANGED << sliderVars, limits >>
  /\ lastOp' = Op("multiGenerate", NoId, FALSE)
  /\ UNCHANGED << appVars, pendingReads, editorVars, pendingEdits >>

\* MultiImageEditor.handleGenerate after the await, success path.
BlendResolve(resultUrl) ==
  /\ pendingBlend # << >>
  /\ generatedImage' = resultUrl
  /\ mProcessing' = FALSE
  /\ pendingBlend' = << >>
  /\ UNCHANGED << sliderVars, limits >>
  /\ lastOp' = Op("blendResolve", NoId, FALSE)
  /\ UNCHANGED << appVars, pendingReads, editorVars, pendingEdits, mPrompt, mError >>

\* MultiImageEditor.handleGenerate after the await, catch path.
BlendReject ==
  /\ pendingBlend # << >>
  /\ mError' = GenerateError
  /\ mProcessing' = FALSE
  /\ pendingBlend' = << >>
  /\ UNCHANGED << sliderVars, limits >>
  /\ lastOp' = Op("blendReject", NoId, FALSE)
  /\ UNCHANGED << appVars, pendingReads, editorVars, pendingEdits, mPrompt,
                  generatedImage >>

\* Variants of handleAddGeneratedImage: one leaves the selection as it was; one
\* also records the result in the history of the reference image.
HandleAddGeneratedImageKeepsSelection(imgs, mode, sel, id, newUrl) ==
  [ images |-> << NewImage(id, newUrl) >> \o imgs,
    showMultiEditor |-> FALSE,
    isSelectionMode |-> mode,
    selectedIds |-> sel ]
HandleAddGeneratedImageAttaches(imgs, mode, sel, id, newUrl) ==
  [ images |-> << NewImage(id, newUrl) >>
                 \o HandleUpdateImage(imgs, ReferenceImage(SelectedImagesList(imgs, sel)).id,
                                      newUrl, "blend"),
    showMultiEditor |-> FALSE,
    isSelectionMode |-> FALSE,
    selectedIds |-> << >> ]

\* handleAddGeneratedImage: the App state it sets, from the state it runs in.
HandleAddGeneratedImage(imgs, mode, sel, id, newUrl) ==
  [ images |-> << NewImage(id, newUrl) >> \o imgs,
    showMultiEditor |-> FALSE,
    isSelectionMode |-> FALSE,
    selectedIds |-> << >> ]

\* MultiImageEditor.handleSave -> handleAddGeneratedImage; the editor unmounts.
MultiSave ==
  /\ View = "multi"
  /\ generatedImage # NoUrl
  /\ LET after == HandleAddGeneratedImage(images, isSelectionMode, selectedIds,
                                           nextId + 1, generatedImage) IN
       /\ images' = after.images
       /\ showMultiEditor' = after.showMultiEditor
       /\ isSelectionMode' = after.isSelectionMode
       /\ selectedIds' = after.selectedIds
  /\ nextId' = nextId + 1
  /\ MultiReset
  /\ UNCHANGED << sliderVars, limits >>
  /\ lastOp' = Op("handleAddGeneratedImage", nextId + 1, FALSE)
  /\ UNCHANGED << editingId, dispatched, pendingReads, editorVars, pendingEdits >>

\* MultiImageEditor onBack: setShowMultiEditor(false); the editor unmounts.  What
\* its request later resolves to is set on the unmounted component, which React
\* ignores, so the request is dropped here.
MultiBack ==
  /\ View = "multi"
  /\ showMultiEditor' = FALSE
  /\ MultiReset
  /\ UNCHANGED << sliderVars, limits >>
  /\ lastOp' = Op("multiBack", NoId, FALSE)
  /\ UNCHANGED << images, editingId, isSelectionMode, selectedIds, nextId, dispatched,
                  pendingReads, editorVars, pendingEdits >>

\* ------------------------------------------------ ImageComparison slider
\* handleDrag: the percent it hands to setSliderPos, (x / rect.width) * 100,
\* for a container at rect.left = left of rect.width = w.
HandleDrag(clientX, left, w) ==
  LET x == Max(0, Min(clientX - left, w)) IN Ratio(x * 100, w)

\* onMouseDown on the container: startDrag(e); handleDrag(e.clientX).  The
\* event is delivered to the container, so the pointer is over it.
MouseDown(clientX) ==
  /\ clientX \in rectLeft..(rectLeft + rectWidth)
  /\ isDragging' = TRUE
  /\ sliderPos' = HandleDrag(clientX, rectLeft, rectWidth)
  /\ lastOp' = Op("onMouseDown", clientX, FALSE)
  /\ UNCHANGED << galleryVars, rectLeft, rectWidth >>

\* onTouchStart on the container: startDrag(e); handleDrag(e.touches[0].clientX).
\* touches[0] is the first touch on the screen, which need not be the one that
\* landed on the container, so clientX may lie anywhere.
TouchStart(clientX) ==
  /\ isDragging' = TRUE
  /\ sliderPos' = HandleDrag(clientX, rectLeft, rectWidth)
  /\ lastOp' = Op("onTouchStart", clientX, FALSE)
  /\ UNCHANGED << galleryVars, rectLeft, rectWidth >>

\* window 'mousemove' -> move; the listener is attached while isDragging and
\* runs for every mouse move, with or without a button held.
MouseMove(clientX) ==
  /\ isDragging
  /\ sliderPos' = HandleDrag(clientX, rectLeft, rectWidth)
  /\ lastOp' = Op("mousemove", clientX, FALSE)
  /\ UNCHANGED << galleryVars, isDragging, rectLeft, rectWidth >>

\* window 'touchmove' -> move; attached while isDragging, for any touch.
TouchMove(clientX) ==
  /\ isDragging
  /\ sliderPos' = HandleDrag(clientX, rectLeft, rectWidth)
  /\ lastOp' = Op("touchmove", clientX, FALSE)
  /\ UNCHANGED << galleryVars, isDragging, rectLeft, rectWidth >>

\* window 'mouseup' -> end: setIsDragging(false); attached while isDragging,
\* for a mouse button released anywhere.
MouseUp ==
  /\ isDragging
  /\ isDragging' = FALSE
  /\ lastOp' = Op("mouseup", NoId, FALSE)
  /\ UNCHANGED << galleryVars, sliderPos, rectLeft, rectWidth >>

\* window 'touchend' -> end: setIsDragging(false); attached while isDragging,
\* for a touch lifted anywhere.
TouchEnd ==
  /\ isDragging
  /\ isDragging' = FALSE
  /\ lastOp' = Op("touchend", NoId, FALSE)
  /\ UNCHANGED << galleryVars, sliderPos, rectLeft, rectWidth >>

\* 'touchcancel': the browser ends a touch (a system gesture, an alert); the
\* effect attaches mousemove, touchmove, mouseup and touchend only, so no
\* listener of the component runs.
TouchCancel ==
  /\ lastOp' = Op("touchcancel", NoId, FALSE)
  /\ UNCHANGED << galleryVars, sliderPos, isDragging, rectLeft, rectWidth >>

\* The page lays the container out anew; handleDrag reads the rect afresh.
ContainerResize(left, w) ==
  /\ << left, w >> # << rectLeft, rectWidth >>
  /\ rectLeft' = left
  /\ rectWidth' = w
  /\ lastOp' = Op("resize", NoId, FALSE)
  /\ UNCHANGED << galleryVars, sliderPos, isDragging >>

\* ---------------------------------------------------------- specification
Next ==
  \/ \E f \in Files : HandleFileUpload(<< f >>)
  \/ \E k \in 1..MaxCreated : ReaderOnload(k)
  \/ \E id \in Ids(images) : RemoveImage(id)
  \/ ToggleSelectionMode
  \/ \E id \in Ids(images) : ToggleSelection(id)
  \/ \E id \in Ids(images) : OpenEditor(id)
  \/ HandleStartMultiEdit
  \/ \E p \in Prompts : EditorSetPrompt(p)
  \/ \E idx \in -1..(2 * MaxCreated) : SelectViewingVersion(idx)
  \/ EditorGenerate
  \/ \E i \in 1..MaxCreated, u \in limits.results : EditResolve(i, u)
  \/ \E i \in 1..MaxCreated : EditReject(i)
  \/ HandleRevertToOriginal
  \/ EditorBack
  \/ \E p \in BlendPrompts : MultiSetPrompt(p)
  \/ \E c \in BOOLEAN : MultiGenerate(c)
  \/ \E u \in Results : BlendResolve(u)
  \/ BlendReject
  \/ MultiSave
  \/ MultiBack

Spec == Init /\ [][Next]_vars

SpecEdits == InitEdits /\ [][Next]_vars

\* The ImageComparison component on its own.
SliderNext ==
  \/ \E x \in 0..MaxX : MouseDown(x)
  \/ \E x \in 0..MaxX : TouchStart(x)
  \/ \E x \in 0..MaxX : MouseMove(x)
  \/ \E x \in 0..MaxX : TouchMove(x)
  \/ MouseUp
  \/ TouchEnd
  \/ TouchCancel
  \/ \E left \in Lefts, w \in Widths : ContainerResize(left, w)

SpecSlider == Init /\ [][SliderNext]_vars


\* ------------------------------------------------------------------ claims
Last(seq) == seq[Len(seq)]
IsPrefix(s1, s2) == Len(s1) <= Len(s2) /\ SubSeq(s2, 1, Len(s1)) = s1
Deleted == nextId - Len(images)
Ran(name) == lastOp.op = name
Runs(name) == lastOp'.op = name

\* C1: every image's currentUrl is the url of its last version, or its
\* originalUrl when it has no versions, in every reachable state.
C1_CurrentIsLastVersion ==
  \A i \in 1..Len(images) :
    images[i].currentUrl =
      IF images[i].versions = << >> THEN images[i].originalUrl
      ELSE Last(images[i].versions).url

\* A revert has just run on an image with earlier history, next to other images.
C1_Witness ==
  /\ Ran("handleRevertToOriginal")
  /\ Len(images) >= 2
  /\ Len(EditedImage.versions) >= 2
  /\ \E i \in 1..Len(images) : images[i].versions = << >>

\* C2 as claimed: a revert sets currentUrl to originalUrl and leaves the length
\* of the image's version list as it was.
C2_RevertKeepsLength ==
  [][ Runs("handleRevertToOriginal") =>
        LET before == Find(images, editingId)
            after == Find(images', editingId) IN
          /\ after.currentUrl = before.originalUrl
          /\ Len(after.versions) = Len(before.versions) ]_vars

\* C2 amended: a revert sets currentUrl to originalUrl and appends exactly one
\* version, whose url is originalUrl and whose prompt is "Revert to Original";
\* the earlier versions stay, and no other image changes.
C2_RevertAppendsOne ==
  [][ Runs("handleRevertToOriginal") =>
        LET before == Find(images, editingId)
            after == Find(images', editingId) IN
          /\ after.currentUrl = before.originalUrl
          /\ after.originalUrl = before.originalUrl
          /\ after.versions =
               Append(before.versions,
                      [ url |-> before.originalUrl, prompt |-> RevertLabel ])
          /\ Len(images') = Len(images)
          /\ \A i \in 1..Len(images) :
               images[i].id # editingId => images'[i] = images[i] ]_vars

\* A revert has just run: the last version of the edited image is the revert entry.
C2_Witness ==
  /\ Ran("handleRevertToOriginal")
  /\ Len(EditedImage.versions) >= 2
  /\ Last(EditedImage.versions).prompt = RevertLabel
  /\ EditedImage.currentUrl = EditedImage.originalUrl

\* C3: across every step, an image that stays in the collection keeps its
\* originalUrl and its old version list as a prefix of the new one; an image
\* leaves the collection only in a removeImage step, and only the removed one.
C3_AppendOnly ==
  [][ /\ \A i \in 1..Len(images) : \A j \in 1..Len(images') :
           images[i].id = images'[j].id =>
             /\ IsPrefix(images[i].versions, images'[j].versions)
             /\ images'[j].originalUrl = images[i].originalUrl
      /\ Ids(images) \subseteq Ids(images')
           \/ (Runs("removeImage") /\ Ids(images) \ Ids(images') = { lastOp'.id }) ]_vars

\* An image with two versions is still there after another image was removed.
C3_Witness ==
  /\ Ran("removeImage")
  /\ \E i \in 1..Len(images) : Len(images[i].versions) >= 2

\* C4: the selection never holds more than 4 ids; a click on an unselected id
\* with 4 selected leaves the selection as it is and alerts; a click on a
\* selected id removes it; any other click adds the id.
C4_SelectionLimit ==
  /\ [](SetSize(selectedIds) \in 0..MaxSelected)
  /\ [][ Runs("toggleSelection") =>
           LET id == lastOp'.id IN
             IF SetHas(selectedIds, id)
               THEN /\ SetElems(selectedIds') = SetElems(selectedIds) \ { id }
                    /\ SetSize(selectedIds') = SetSize(selectedIds) - 1
                    /\ ~lastOp'.alert
             ELSE IF SetSize(selectedIds) = MaxSelected
               THEN /\ selectedIds' = selectedIds
                    /\ lastOp'.alert
             ELSE /\ SetElems(selectedIds') = SetElems(selectedIds) \cup { id }
                  /\ SetSize(selectedIds') = SetSize(selectedIds) + 1
                  /\ ~lastOp'.alert ]_vars

\* A fifth image was clicked with four selected: the click was rejected.
C4_Witness ==
  /\ Ran("toggleSelection")
  /\ lastOp.alert
  /\ SetSize(selectedIds) = MaxSelected
  /\ ~SetHas(selectedIds, lastOp.id)

\* C5: every selected id is the id of an image in the collection; after
\* removeImage(id) the id is neither selected nor in the ordered selection.
C5_SelectionInCollection ==
  /\ [](SetElems(selectedIds) \subseteq Ids(images))
  /\ [][ Runs("removeImage") =>
           /\ ~SetHas(selectedIds', lastOp'.id)
           /\ lastOp'.id \notin Ids(SelectedImagesList(images', selectedIds')) ]_vars

\* Images are selected in a collection that an image was removed from.
C5_Witness ==
  /\ Deleted > 0
  /\ SetSize(selectedIds) >= MinBlend
  /\ Len(SelectedImagesList(images, selectedIds)) = SetSize(selectedIds)

\* C6: outside selection mode the selection is empty; leaving selection mode
\* clears it, entering it changes neither the selection nor the collection.
C6_ExitClearsSelection ==
  /\ [](~isSelectionMode => selectedIds = << >>)
  /\ [][ Runs("toggleSelectionMode") =>
           IF isSelectionMode
             THEN ~isSelectionMode' /\ selectedIds' = << >>
             ELSE isSelectionMode' /\ selectedIds' = selectedIds /\ images' = images ]_vars

\* Selection mode has just been left through its toggle.
C6_Witness ==
  /\ Ran("toggleSelectionMode")
  /\ ~isSelectionMode
  /\ selectedIds = << >>
  /\ Len(images) > MinForSelectionMode

\* C7: the blend action can be taken only with 2 to 4 images selected.
C7_BlendNeedsTwoToFour ==
  (ENABLED HandleStartMultiEdit) => SetSize(selectedIds) \in MinBlend..MaxSelected

\* The blend was started with the selection full.
C7_Witness ==
  /\ Ran("handleStartMultiEdit")
  /\ SetSize(selectedIds) = MaxSelected

\* Gallery positions of the selected images.
SelectedPositions == { i \in 1..Len(images) : images[i].id \in SetElems(selectedIds) }
\* The k-th smallest of them.
KthPosition(k) ==
  CHOOSE i \in SelectedPositions :
    Cardinality({ j \in SelectedPositions : j < i }) = k - 1

\* C8: the ordered selection is the selected images by increasing gallery
\* position, whatever the order of the clicks: the reference is the selected
\* image at the smallest position, the targets follow in gallery order, and a
\* dispatched blend carries their contents in that order.
C8_GalleryOrder ==
  /\ [](LET list == SelectedImagesList(images, selectedIds) IN
          /\ Len(list) = Cardinality(SelectedPositions)
          /\ \A k \in 1..Len(list) : list[k] = images[KthPosition(k)]
          /\ list # << >> =>
               /\ \A i \in SelectedPositions :
                    IndexOf(images, ReferenceImage(list).id) <= i
               /\ TargetImages(list) = [ k \in 1..(Len(list) - 1) |-> list[k + 1] ])
  /\ [][ Runs("multiGenerate") /\ pendingBlend' # << >> =>
           /\ Len(pendingBlend'[1].payload) = Cardinality(SelectedPositions)
           /\ \A k \in 1..Cardinality(SelectedPositions) :
                pendingBlend'[1].payload[k] = images[KthPosition(k)].currentUrl ]_vars

\* A blend is in flight for images that were clicked against the gallery order
\* and whose contents differ.
C8_Witness ==
  /\ pendingBlend # << >>
  /\ Ran("multiGenerate")
  /\ Len(selectedIds) >= 2
  /\ IndexOf(images, selectedIds[1]) > IndexOf(images, selectedIds[2])
  /\ pendingBlend[1].payload[1] # pendingBlend[1].payload[2]

\* C9: accepting a blend result closes the multi-image editor, leaves selection
\* mode and empties the selection in one step; a failed blend call and a back
\* navigation leave selection mode and the selection as they were.
C9_AcceptClearsSelection ==
  [][ /\ Runs("handleAddGeneratedImage") =>
           /\ showMultiEditor /\ isSelectionMode /\ selectedIds # << >>
           /\ ~showMultiEditor' /\ ~isSelectionMode' /\ selectedIds' = << >>
      /\ Runs("blendReject") =>
           /\ isSelectionMode' = isSelectionMode /\ selectedIds' = selectedIds
           /\ showMultiEditor' = showMultiEditor
      /\ Runs("multiBack") =>
           /\ isSelectionMode' = isSelectionMode /\ selectedIds' = selectedIds
           /\ ~showMultiEditor' ]_vars

\* A blend result has just been accepted.
C9_Witness ==
  /\ Ran("handleAddGeneratedImage")
  /\ View = "gallery"
  /\ ~isSelectionMode
  /\ selectedIds = << >>
  /\ Len(images) >= 3

\* C10: accepting a blend result adds exactly one image, with a fresh id, whose
\* originalUrl and currentUrl are the generated content and whose version list
\* is empty; every image that was there is still there, unchanged.
C10_BlendAddsFreshImage ==
  [][ Runs("handleAddGeneratedImage") =>
        /\ Len(images') = Len(images) + 1
        /\ \E j \in 1..Len(images') :
             /\ images'[j].id \notin Ids(images)
             /\ images'[j].originalUrl = generatedImage
             /\ images'[j].currentUrl = generatedImage
             /\ images'[j].versions = << >>
             /\ \A i \in 1..Len(images) :
                  images[i] = images'[IF i < j THEN i ELSE i + 1] ]_vars

\* A blend result was added next to a source image that has a history.
C10_Witness ==
  /\ Ran("handleAddGeneratedImage")
  /\ images[1].id = lastOp.id
  /\ images[1].versions = << >>
  /\ \E i \in 2..Len(images) : images[i].versions # << >>

\* The slider handlers that call handleDrag.
RunsHandleDrag ==
  Runs("onMouseDown") \/ Runs("onTouchStart") \/ Runs("mousemove") \/ Runs("touchmove")

\* C11: the slider is Idle or Dragging; a pointer-down in the container makes
\* it Dragging, and each of mouse up, touch end and touch cancel makes it Idle.
C11_DragEndsWithPointer ==
  [][ /\ (Runs("onMouseDown") \/ Runs("onTouchStart")) => isDragging'
      /\ (Runs("mouseup") \/ Runs("touchend") \/ Runs("touchcancel")) => ~isDragging'
    ]_vars

\* C12: sliderPos stays within 0..100, and a handleDrag with the pointer left of
\* the container sets 0, right of it 100, and inside it
\* (clientX - rect.left) / rect.width * 100.
C12_BoundaryClamped ==
  [][ /\ Within(sliderPos', 0, 100)
      /\ RunsHandleDrag =>
           LET x == lastOp'.id IN
             sliderPos' = CASE x < rectLeft -> Ratio(0, 1)
                            [] x > rectLeft + rectWidth -> Ratio(100, 1)
                            [] OTHER -> Ratio((x - rectLeft) * 100, rectWidth)
    ]_vars

\* The mounted Editor has a request of its own in flight.
LiveEditInFlight == \E i \in 1..Len(pendingEdits) : pendingEdits[i].live

\* C13: a component's isProcessing is true exactly while a request it
\* dispatched is in flight: set with the dispatch, and false again as soon as
\* the request has resolved or rejected.
C13_ProcessingIffInFlight ==
  /\ edProcessing <=> LiveEditInFlight
  /\ mProcessing <=> (pendingBlend # << >>)

\* The open Editor's request has just been rejected, with other requests of
\* earlier Editors still in flight.
C13_Witness ==
  /\ Ran("editReject")
  /\ View = "editor"
  /\ lastOp.id = editingId
  /\ edError = GenerateError
  /\ ~edProcessing
  /\ pendingEdits # << >>

\* C14: when editImageWithGemini fails, the images are as they were, the error
\* message is set, isProcessing no longer keeps the user from sending a new
\* request, and no request is sent in place of the failed one.
C14_FailureSetsError ==
  [][ Runs("editReject") =>
        /\ images' = images
        /\ edError' = GenerateError
        /\ ~edProcessing'
        /\ Len(pendingEdits') = Len(pendingEdits) - 1
        /\ dispatched' = dispatched
    ]_vars

\* The request whose continuation runs in this step, and what is left in flight.
Completing == CHOOSE i \in 1..Len(pendingEdits) : pendingEdits[i].seq = lastOp'.seq
OtherImagesKept ==
  /\ Len(images') = Len(images)
  /\ \A k \in 1..Len(images) : images[k].id # lastOp'.id => images'[k] = images[k]

\* C15: an edit result for an id that is no longer in the collection changes
\* nothing: the images, the selection and the workflow flags are as before, no
\* error is set, and no alert is raised.
C15_MissingIdIsNoOp ==
  [][ (Runs("editResolve") /\ ~Has(images, lastOp'.id)) =>
        /\ UNCHANGED << appVars, editorVars, mError >>
        /\ ~lastOp'.alert
    ]_vars

\* The result of an edit has arrived after its image was deleted, while other
\* images are selected.
C15_Witness ==
  /\ Ran("editResolve")
  /\ ~Has(images, lastOp.id)
  /\ SetSize(selectedIds) > 0

\* C16: leaving the Editor takes no request out of flight, and when a request
\* of an Editor that was left resolves while its image still exists, the result
\* is appended as a new version of that image, with the request's prompt, and
\* becomes its currentUrl; no other image changes.
C16_LateResultApplied ==
  [][ /\ Runs("editorBack") =>
           /\ Len(pendingEdits') = Len(pendingEdits)
           /\ \A i \in 1..Len(pendingEdits) :
                /\ pendingEdits'[i].imageId = pendingEdits[i].imageId
                /\ pendingEdits'[i].prompt = pendingEdits[i].prompt
      /\ (Runs("editResolve") /\ ~pendingEdits[Completing].live /\ Has(images, lastOp'.id)) =>
           LET old == Find(images, lastOp'.id)
               new == Find(images', lastOp'.id)
           IN /\ pendingEdits[Completing].imageId = new.id
              /\ new.versions = Append(old.versions,
                                       NewVersion(new.currentUrl, pendingEdits[Completing].prompt))
              /\ new.currentUrl \in limits.results
              /\ OtherImagesKept
    ]_vars

\* A result has arrived in the gallery, for an image that now has a version.
C16_Witness ==
  /\ Ran("editResolve")
  /\ View = "gallery"
  /\ Has(images, lastOp.id)
  /\ Find(images, lastOp.id).versions # << >>
  /\ Find(images, lastOp.id).currentUrl \in Results

\* C17: an Editor opens with isProcessing false whatever is in flight for its
\* image, so requests for one image overlap; and every request that resolves
\* for an existing image, wherever it stands in the order of dispatch, appends
\* a version of its own and makes its result the currentUrl.
C17_LastResolvedWins ==
  [][ /\ Runs("setEditingId") => ~edProcessing'
      /\ (Runs("editResolve") /\ Has(images, lastOp'.id)) =>
           LET old == Find(images, lastOp'.id)
               new == Find(images', lastOp'.id)
           IN /\ Len(new.versions) = Len(old.versions) + 1
              /\ IsPrefix(old.versions, new.versions)
              /\ Last(new.versions).prompt = pendingEdits[Completing].prompt
              /\ Last(new.versions).url \in limits.results
              /\ new.currentUrl = Last(new.versions).url
    ]_vars

\* Two requests were dispatched for one image; the second resolved first, to
\* "c", and the first has now resolved, to "b", which is the currentUrl.
C17_Witness ==
  /\ Ran("editResolve")
  /\ lastOp.seq = 1
  /\ dispatched = 2
  /\ pendingEdits = << >>
  /\ Has(images, lastOp.id)
  /\ LET img == Find(images, lastOp.id) IN
       /\ img.versions = << NewVersion("c", "sketch"), NewVersion("b", "sketch") >>
       /\ img.currentUrl = "b"

\* viewingVersionIndex is null or an index into the versions of the image shown.
ViewingIndexValid ==
  \/ edViewing = NoIndex
  \/ /\ View = "editor"
     /\ edViewing \in 0..(Len(EditedImage.versions) - 1)

\* C18: the viewing index is always null or a valid index of the shown image's
\* versions, and null when an Editor opens; the active content is currentUrl
\* when it is null and the url of versions[index] otherwise; and choosing a
\* version to view changes nothing but the viewing index.
C18_ViewingIndex ==
  [][ /\ ViewingIndexValid'
      /\ (View' = "editor") =>
           (ActiveUrl(EditedImage, edViewing))' =
              IF edViewing' = NoIndex THEN EditedImage'.currentUrl
              ELSE EditedImage'.versions[edViewing' + 1].url
      /\ Runs("setEditingId") => edViewing' = NoIndex
      /\ Runs("setViewingVersionIndex") =>
           UNCHANGED << appVars, edPrompt, edProcessing, edError, pendingEdits, multiVars >>
    ]_vars

\* The image was edited to "b" and then to "c", and the first version has just
\* been chosen for viewing: the active content is "b" while currentUrl is "c".
C18_Witness ==
  /\ Ran("setViewingVersionIndex")
  /\ View = "editor"
  /\ EditedImage.versions = << NewVersion("b", "sketch"), NewVersion("c", "sketch") >>
  /\ EditedImage.currentUrl = "c"
  /\ edViewing = 0
  /\ ActiveUrl(EditedImage, edViewing) = "b"

\* C19: whenever the MultiImageEditor is shown, the list handed to it has two
\* to four images, one for each selected id and all of them in the collection,
\* so the reference image is defined and one to three targets follow it.
C19_BlendListWellFormed ==
  showMultiEditor =>
    LET list == SelectedImagesList(images, selectedIds) IN
      /\ Len(list) \in MinBlend..MaxSelected
      /\ Len(list) = SetSize(selectedIds)
      /\ SetElems(selectedIds) \subseteq Ids(images)
      /\ \A k \in 1..Len(list) : Has(images, list[k].id) /\ SetHas(selectedIds, list[k].id)
      /\ ReferenceImage(list) = list[1]
      /\ Len(TargetImages(list)) \in 1..(MaxSelected - 1)
      /\ Len(TargetImages(list)) = Len(list) - 1

\* While the MultiImageEditor is shown, a late edit result has arrived for one
\* of the selected images, after an image was deleted and with an unselected
\* image in the gallery.
C19_Witness ==
  /\ showMultiEditor
  /\ Ran("editResolve")
  /\ SetHas(selectedIds, lastOp.id)
  /\ Len(images) > SetSize(selectedIds)
  /\ Deleted > 0

\* C20: isSelectionMode is never true while editingId is set, and the
\* MultiImageEditor is shown only in selection mode.
C20_ModesExclusive ==
  /\ ~(isSelectionMode /\ editingId # NoId)
  /\ showMultiEditor => isSelectionMode

\* The MultiImageEditor is shown, in selection mode, over images that were
\* edited in the Editor before, one of whose requests is still in flight.
C20_Witness ==
  /\ showMultiEditor
  /\ isSelectionMode
  /\ editingId = NoId
  /\ pendingEdits # << >>
  /\ \E i \in 1..Len(images) : images[i].versions # << >>

====
